---- MODULE Spec2Model ----
(***************************************************************************)
(* Model of the skill package lifecycle manager of skillsmp-searcher.      *)
(* The registry root is a map from directory names to directory contents;  *)
(* install_skill_update (skill_downloader.py) runs over it step by step:   *)
(* RESOLVE_TARGET, BACKUP, DOWNLOAD, VALIDATE, REPLACE (remove, extract),  *)
(* COMMIT / ROLLBACK.  Every filesystem call that can fail has its failure *)
(* as one of its outcomes.                                                 *)
(***************************************************************************)
EXTENDS Integers, Sequences, FiniteSets, TLC

\* ---------------------------------------------------------------- bounds
\* how many ".backup" suffixes a directory name can carry
MaxBackupDepth == 1

\* ---------------------------------------------------- names and contents
Bases == {"a", "b"}
\* a directory name is <<base, k>>: base followed by k ".backup" suffixes
DirNames == Bases \X (0..MaxBackupDepth)
NoDir == <<"-", 0>>

\* value of the "name" key of a manifest; "" when the front matter has none
ManifestNames == {"Foo", "bar", ""}
RequestNames == {"foo", "Foo", "bar", "zap", ""}
NoManifest == "<no SKILL.md>"

\* str.lower on the names of the model
Lower(s) == IF s = "Foo" THEN "foo" ELSE s

Absent == [manifest |-> NoManifest, data |-> "absent"]
Dir(m, v) == [manifest |-> m, data |-> v]
Exists(f, d) == f[d].data # "absent"

\* a directory that a failed rmtree / copytree / extractall left half done
Damaged(c) == {Dir(m, "partial") : m \in {c.manifest, NoManifest}}

\* item.is_dir() and (item / "SKILL.md").exists()
HasManifest(f, d) == Exists(f, d) /\ f[d].manifest # NoManifest

\* extract_frontmatter(item / "SKILL.md").get("name", "")
FrontmatterName(f, d) == f[d].manifest

\* f"{skill_dir.name}.backup"
BackupName(d) == <<d[1], d[2] + 1>>

\* ------------------------------------------------------ filesystem calls
\* each returns the set of its outcomes [fs, ok]

\* shutil.rmtree(d): removes d; a failure leaves d whole or half removed
RmTree(f, d) ==
  IF ~Exists(f, d) THEN {[fs |-> f, ok |-> FALSE]}
  ELSE {[fs |-> [f EXCEPT ![d] = Absent], ok |-> TRUE]}
       \cup {[fs |-> f, ok |-> FALSE]}
       \cup {[fs |-> [f EXCEPT ![d] = c], ok |-> FALSE] : c \in Damaged(f[d])}

\* shutil.copytree(src, dst): dst must not exist; a failure leaves dst
\* missing or half copied
CopyTree(f, src, dst) ==
  IF ~Exists(f, src) \/ Exists(f, dst) THEN {[fs |-> f, ok |-> FALSE]}
  ELSE {[fs |-> [f EXCEPT ![dst] = f[src]], ok |-> TRUE]}
       \cup {[fs |-> f, ok |-> FALSE]}
       \cup {[fs |-> [f EXCEPT ![dst] = c], ok |-> FALSE] : c \in Damaged(f[src])}

\* ------------------------------------------------------------- archives
\* the downloaded file: not a zip, a zip without entries, or a package
\* whose first entry lies under the directory top and whose SKILL.md
\* carries the name manifest
NotZip == [kind |-> "notzip", top |-> NoDir, manifest |-> NoManifest]
EmptyZip == [kind |-> "empty", top |-> NoDir, manifest |-> NoManifest]
NoArchive == [kind |-> "none", top |-> NoDir, manifest |-> NoManifest]
\* the package unpacks over the old directory, over another package, or
\* over the backup directory
ArchiveTops == {<<"a", 0>>, <<"b", 0>>, <<"a", 1>>}
ArchiveManifests == {"Foo", "bar"}
Archives ==
  {NotZip, EmptyZip}
  \cup {[kind |-> "pkg", top |-> t, manifest |-> m] :
          t \in ArchiveTops, m \in ArchiveManifests}

\* variant: the check of the empty namelist is missing
IsValidPackage_NoEmptyCheck(ar) == ar.kind # "notzip"

\* zipfile.ZipFile(temp_path) opens and namelist() is not empty
IsValidPackage(ar) == ar.kind = "pkg"

\* what extractall leaves at the top directory: the archive's files, laid
\* over whatever the directory held
Extracted(old, ar) ==
  IF old = Absent \/ old = Dir(ar.manifest, "v2") THEN Dir(ar.manifest, "v2")
  ELSE Dir(ar.manifest, "mixed")

HalfExtracted(old, ar) ==
  IF old = Absent THEN Damaged(Dir(ar.manifest, "v2"))
  ELSE {Dir(m, "mixed") : m \in {old.manifest, ar.manifest}}

\* install_skill(skill_path, skills_dir): outcomes [fs, ok, path]
install_skill(f, ar) ==
  IF ar.kind # "pkg" THEN {[fs |-> f, ok |-> FALSE, path |-> NoDir]}
  ELSE {[fs |-> [f EXCEPT ![ar.top] = Extracted(f[ar.top], ar)],
         ok |-> TRUE, path |-> ar.top]}
       \cup {[fs |-> f, ok |-> FALSE, path |-> NoDir]}
       \cup {[fs |-> [f EXCEPT ![ar.top] = c], ok |-> FALSE, path |-> NoDir] :
               c \in HalfExtracted(f[ar.top], ar)}

\* ------------------------------------------------------ download address
DownloadUrls == {"none", "", "direct"}
GithubUrls == {"none", "github", "other"}

\* infer_download_url: a URL for "github.com/<owner>/<repo>", else None
infer_download_url(gu) == IF gu = "github" THEN "inferred" ELSE "none"

\* falsy in Python: None and the empty string
Falsy(u) == u \in {"none", ""}

ResolveUrl(du, gu) ==
  IF Falsy(du) /\ ~Falsy(gu) THEN infer_download_url(gu) ELSE du

\* requests.get outcomes of download_skill_file
DownloadOutcomes == {"ok", "404", "http_error", "timeout", "connection_error"}
download_skill_file(o) == o = "ok"

\* ------------------------------------------------------------------ state
VARIABLES
  fs,            \* the registry root: directory name -> contents
  pc,            \* position of the running install_skill_update
  skill_name,    \* arguments of the invocation
  backup,
  skill_dir,     \* local variables of the invocation
  url,
  backup_path,
  archive,       \* contents of downloaded.skill in the temporary directory
  installed_path,
  result,        \* "none" while running, then "True", "False" or "raised"
  fs0,           \* history: the registry root when the invocation started
  dl,            \* history: outcome of requests.get
  failure,       \* history: the branch on which the invocation gave up
  removeStarted, \* history: shutil.rmtree(skill_dir) has been called
  extracted,     \* history: install_skill returned a path
  backupMade,    \* history: backup_skill_directory returned a path
  backupDeleted, \* history: the backup was deleted after it was made
  reported,      \* history: <<failure class, result>> of the failed invocations
  first,         \* history: the invocation before this one on the same root
  call,          \* a call of one of the other functions, with its inputs
  ret            \* what that call returned or raised

vars == <<fs, pc, skill_name, backup, skill_dir, url, backup_path, archive,
          installed_path, result, fs0, dl, failure, removeStarted, extracted,
          backupMade, backupDeleted, reported, first, call, ret>>

locals == <<skill_name, backup, skill_dir, url, backup_path, archive,
            installed_path>>
history == <<fs0, dl, removeStarted, extracted, backupMade, backupDeleted>>
engine == <<fs, pc, locals, result, failure, history, reported, first>>

\* registry roots passed as skills_dir: package "Foo" in directory a; next
\* to it package "bar" or a directory whose manifest has no name; and
\* a.backup missing, or left behind by an earlier invocation that failed
\* (a whole copy after a failed download, half a copy after a failed backup)
InitialRegistries ==
  {[d \in DirNames |->
      IF d = <<"a", 0>> THEN Dir("Foo", "v1")
      ELSE IF d = <<"b", 0>> THEN c
      ELSE IF d = <<"a", 1>> THEN s ELSE Absent] :
   c \in {Dir("bar", "v1"), Dir("", "v1")},
   s \in {Absent, Dir("Foo", "v1"), Dir("Foo", "partial")}}

\* no invocation before this one; no other function called
NoFirst == [result |-> "none"]
NoCall == [fn |-> "none"]
NoRet == [kind |-> "none"]

\* no invocation of install_skill_update is running
Idle ==
  /\ pc = "idle"
  /\ skill_name = ""
  /\ backup = FALSE
  /\ skill_dir = NoDir
  /\ url = "none"
  /\ backup_path = NoDir
  /\ archive = NoArchive
  /\ installed_path = NoDir
  /\ result = "none"
  /\ dl = "none"
  /\ failure = "none"
  /\ removeStarted = FALSE
  /\ extracted = FALSE
  /\ backupMade = FALSE
  /\ backupDeleted = FALSE
  /\ reported = {}
  /\ first = NoFirst

Init ==
  /\ fs \in InitialRegistries
  /\ fs0 = fs
  /\ Idle
  /\ call = NoCall
  /\ ret = NoRet

\* the failure classes the caller has to tell apart
FailureClass(why) ==
  IF why \in {"none", "RestoreFailed"} THEN why ELSE "other failure"

\* return of install_skill_update
Finish(r, why) ==
  /\ pc' = "done"
  /\ result' = r
  /\ failure' = why
  /\ reported' = IF why = "none" THEN reported
                 ELSE reported \cup {<<FailureClass(why), r>>}
  /\ UNCHANGED <<first, call, ret>>

Continue(next) ==
  /\ pc' = next
  /\ UNCHANGED <<result, failure, reported, first, call, ret>>

\* --------------------------------------------------------- RESOLVE_TARGET
\* directories the scan of skills_dir.iterdir() can stop at
Candidates(f, name) ==
  {d \in DirNames : HasManifest(f, d)
                    /\ Lower(FrontmatterName(f, d)) = Lower(name)}

ResolveTarget ==
  /\ pc = "idle"
  /\ \E name \in RequestNames, du \in DownloadUrls, gu \in GithubUrls,
        bk \in BOOLEAN :
       /\ skill_name' = name
       /\ backup' = bk
       /\ url' = ResolveUrl(du, gu)
       /\ IF Candidates(fs, name) = {}
          THEN /\ skill_dir' = NoDir
               /\ Finish("False", "PackageNotFound")
          ELSE \E d \in Candidates(fs, name) :
                 /\ bk => d[2] < MaxBackupDepth
                 /\ skill_dir' = d
                 /\ IF Falsy(ResolveUrl(du, gu))
                    THEN Finish("False", "NoDownloadSource")
                    ELSE Continue("backup")
  /\ fs0' = fs
  /\ dl' = "none"
  /\ removeStarted' = FALSE
  /\ extracted' = FALSE
  /\ backupMade' = FALSE
  /\ backupDeleted' = FALSE
  /\ UNCHANGED <<fs, backup_path, archive, installed_path>>

\* ----------------------------------------------------------------- BACKUP
\* variant: the stale backup is cleared with rmtree(skill_dir)
backup_skill_directory_RmSource(f, d) ==
  LET bp == BackupName(d)
      cleared == IF Exists(f, bp) THEN RmTree(f, d)
                 ELSE {[fs |-> f, ok |-> TRUE]}
  IN  {[fs |-> r.fs, ret |-> NoDir] : r \in {x \in cleared : ~x.ok}}
      \cup UNION {{[fs |-> c.fs, ret |-> IF c.ok THEN bp ELSE NoDir] :
                     c \in CopyTree(r.fs, d, bp)} :
                  r \in {x \in cleared : x.ok}}

\* variant: the backup path is returned whether or not the copy succeeded
backup_skill_directory_AlwaysPath(f, d) ==
  LET bp == BackupName(d)
      cleared == IF Exists(f, bp) THEN RmTree(f, bp)
                 ELSE {[fs |-> f, ok |-> TRUE]}
  IN  {[fs |-> r.fs, ret |-> NoDir] : r \in {x \in cleared : ~x.ok}}
      \cup UNION {{[fs |-> c.fs, ret |-> bp] : c \in CopyTree(r.fs, d, bp)} :
                  r \in {x \in cleared : x.ok}}

\* backup_skill_directory(skill_dir): outcomes [fs, ret], ret = NoDir is None
backup_skill_directory(f, d) ==
  LET bp == BackupName(d)
      cleared == IF Exists(f, bp) THEN RmTree(f, bp)
                 ELSE {[fs |-> f, ok |-> TRUE]}
  IN  {[fs |-> r.fs, ret |-> NoDir] : r \in {x \in cleared : ~x.ok}}
      \cup UNION {{[fs |-> c.fs, ret |-> IF c.ok THEN bp ELSE NoDir] :
                     c \in CopyTree(r.fs, d, bp)} :
                  r \in {x \in cleared : x.ok}}

BackupStep ==
  /\ pc = "backup"
  /\ IF backup
     THEN \E o \in backup_skill_directory(fs, skill_dir) :
            /\ fs' = o.fs
            /\ backup_path' = o.ret
            /\ backupMade' = (o.ret # NoDir)
     ELSE /\ backup_path' = NoDir
          /\ UNCHANGED <<fs, backupMade>>
  /\ Continue("download")
  /\ UNCHANGED <<skill_name, backup, skill_dir, url, archive, installed_path,
                 fs0, dl, removeStarted, extracted, backupDeleted>>

\* --------------------------------------------------------------- DOWNLOAD
\* variant: a failed download deletes the backup before returning, as the
\* handler of a failed removal does
DownloadStep_DropsBackup ==
  /\ pc = "download"
  /\ \E o \in DownloadOutcomes :
       /\ dl' = o
       /\ IF download_skill_file(o)
          THEN /\ archive' \in Archives
               /\ Continue("validate")
               /\ UNCHANGED fs
          ELSE /\ UNCHANGED archive
               /\ fs' = IF backup_path # NoDir
                        THEN [fs EXCEPT ![backup_path] = Absent] ELSE fs
               /\ Finish("False", "DownloadFailed")
  /\ UNCHANGED <<skill_name, backup, skill_dir, url, backup_path,
                 installed_path, fs0, removeStarted, extracted, backupMade,
                 backupDeleted>>

DownloadStep ==
  /\ pc = "download"
  /\ \E o \in DownloadOutcomes :
       /\ dl' = o
       /\ IF download_skill_file(o)
          THEN /\ archive' \in Archives
               /\ Continue("validate")
          ELSE /\ UNCHANGED archive
               /\ Finish("False", "DownloadFailed")
  /\ UNCHANGED <<fs, skill_name, backup, skill_dir, url, backup_path,
                 installed_path, fs0, removeStarted, extracted, backupMade,
                 backupDeleted>>

\* --------------------------------------------------------------- VALIDATE
ValidateStep ==
  /\ pc = "validate"
  /\ IF IsValidPackage(archive)
     THEN Continue("remove")
     ELSE Finish("False", "InvalidPackage")
  /\ UNCHANGED <<fs, locals, history>>

\* ---------------------------------------------------------------- REPLACE
\* shutil.rmtree(skill_dir); when it raises, the handler deletes the backup
\* and returns False, and a failure of that deletion leaves the function as
\* an exception
RemoveStep ==
  /\ pc = "remove"
  /\ removeStarted' = TRUE
  /\ \E r \in RmTree(fs, skill_dir) :
       IF r.ok
       THEN /\ fs' = r.fs
            /\ Continue("extract")
            /\ UNCHANGED backupDeleted
       ELSE IF backup_path # NoDir /\ Exists(r.fs, backup_path)
            THEN \E b \in RmTree(r.fs, backup_path) :
                   /\ fs' = b.fs
                   /\ backupDeleted' = (backupDeleted \/ b.ok)
                   /\ IF b.ok THEN Finish("False", "ReplaceFailed")
                      ELSE Finish("raised", "CleanupRaised")
            ELSE /\ fs' = r.fs
                 /\ Finish("False", "ReplaceFailed")
                 /\ UNCHANGED backupDeleted
  /\ UNCHANGED <<locals, fs0, dl, extracted, backupMade>>

\* installed_path = install_skill(temp_path, skills_dir=skills_dir)
ExtractStep ==
  /\ pc = "extract"
  /\ \E o \in install_skill(fs, archive) :
       /\ fs' = o.fs
       /\ installed_path' = o.path
       /\ extracted' = o.ok
       /\ IF o.ok THEN Continue("commit") ELSE Continue("restore")
  /\ UNCHANGED <<skill_name, backup, skill_dir, url, backup_path, archive,
                 fs0, dl, removeStarted, backupMade, backupDeleted>>

\* ----------------------------------------------------------------- COMMIT
\* the deletion of the backup is inside the try block of the installation:
\* when it raises, the except branch runs the restore
CommitStep ==
  /\ pc = "commit"
  /\ IF backup_path # NoDir /\ Exists(fs, backup_path)
     THEN \E b \in RmTree(fs, backup_path) :
            /\ fs' = b.fs
            /\ backupDeleted' = b.ok
            /\ IF b.ok THEN Finish("True", "none") ELSE Continue("restore")
     ELSE /\ Finish("True", "none")
          /\ UNCHANGED <<fs, backupDeleted>>
  /\ UNCHANGED <<locals, fs0, dl, removeStarted, extracted, backupMade>>

\* --------------------------------------------------------------- ROLLBACK
RestoreStep ==
  /\ pc = "restore"
  /\ IF backup_path # NoDir /\ Exists(fs, backup_path)
     THEN \E c \in CopyTree(fs, backup_path, skill_dir) :
            /\ fs' = c.fs
            /\ IF c.ok THEN Finish("False", "InstallFailedRestored")
               ELSE Finish("False", "RestoreFailed")
     ELSE /\ UNCHANGED fs
          /\ Finish("False", "InstallFailedNoBackup")
  /\ UNCHANGED <<locals, history>>

\* the invocation has returned; the next one is given a registry root
\* (skills_dir) of InitialRegistries
Return ==
  /\ pc = "done"
  /\ pc' = "idle"
  /\ fs' \in InitialRegistries
  /\ skill_name' = ""
  /\ backup' = FALSE
  /\ skill_dir' = NoDir
  /\ url' = "none"
  /\ backup_path' = NoDir
  /\ archive' = NoArchive
  /\ installed_path' = NoDir
  /\ result' = "none"
  /\ failure' = "none"
  /\ fs0' = fs'
  /\ dl' = "none"
  /\ removeStarted' = FALSE
  /\ extracted' = FALSE
  /\ backupMade' = FALSE
  /\ backupDeleted' = FALSE
  /\ first' = NoFirst
  /\ UNCHANGED <<reported, call, ret>>

\* the command has succeeded and is run a second time on the registry root
\* the first invocation left (main calls install_skill_update once per
\* process)
RunAgain ==
  /\ pc = "done"
  /\ result = "True"
  /\ first.result = "none"
  /\ first' = [result |-> result, name |-> skill_name, backup |-> backup,
               archive |-> archive, path |-> installed_path, fs |-> fs,
               backupMade |-> backupMade]
  /\ pc' = "idle"
  /\ skill_name' = ""
  /\ backup' = FALSE
  /\ skill_dir' = NoDir
  /\ url' = "none"
  /\ backup_path' = NoDir
  /\ archive' = NoArchive
  /\ installed_path' = NoDir
  /\ result' = "none"
  /\ failure' = "none"
  /\ fs0' = fs
  /\ dl' = "none"
  /\ removeStarted' = FALSE
  /\ extracted' = FALSE
  /\ backupMade' = FALSE
  /\ backupDeleted' = FALSE
  /\ UNCHANGED <<fs, reported, call, ret>>

Next ==
  \/ ResolveTarget
  \/ BackupStep
  \/ DownloadStep
  \/ ValidateStep
  \/ RemoveStep
  \/ ExtractStep
  \/ CommitStep
  \/ RestoreStep
  \/ Return

Spec == Init /\ [][Next]_vars

\* two invocations one after the other on the same registry root
NextSeq ==
  \/ ResolveTarget
  \/ BackupStep
  \/ DownloadStep
  \/ ValidateStep
  \/ RemoveStep
  \/ ExtractStep
  \/ CommitStep
  \/ RestoreStep
  \/ RunAgain

SpecSeq == Init /\ [][NextSeq]_vars

TypeOK ==
  /\ fs \in [DirNames -> {Absent} \cup
               {Dir(m, v) : m \in ManifestNames \cup {NoManifest},
                            v \in {"v1", "v2", "partial", "mixed"}}]
  /\ pc \in {"idle", "backup", "download", "validate", "remove", "extract",
             "commit", "restore", "done"}
  /\ result \in {"none", "True", "False", "raised"}
  /\ skill_dir \in DirNames \cup {NoDir}
  /\ backup_path \in DirNames \cup {NoDir}

\* ------------------------------------------------------ registry listings
\* utils.list_installed_skills: the names of the directories of the root
\* that hold a SKILL.md (the sorted list, as the set of its elements)
list_installed_skills(f) == {d \in DirNames : HasManifest(f, d)}

\* check_updates.get_skill_name_from_md: the name the manifest gives, ""
\* when it gives none
get_skill_name_from_md(f, d) == f[d].manifest

\* check_updates.get_installed_skills_with_metadata: the directories it
\* returns an entry for
get_installed_skills_with_metadata(f) ==
  {d \in DirNames : HasManifest(f, d) /\ get_skill_name_from_md(f, d) # ""}

\* ------------------------------------------------- utils.install_skill
\* names of zip members: sequences of path components; a directory member
\* is a name that ends in "/"
MaxPathLen == 2
MaxEntries == 2
SeqsUpTo(S, n) == UNION {[1..k -> S] : k \in 0..n}
PathComponents == {"pkg", "SKILL.md"}
ZipMembers ==
  [path : SeqsUpTo(PathComponents, MaxPathLen) \ {<<>>}, isdir : BOOLEAN]
Namelists == SeqsUpTo(ZipMembers, MaxEntries)

\* the directories a member needs above it
Parents(p) == {SubSeq(p, 1, k) : k \in 1..(Len(p) - 1)}

\* ZipFile.extractall into an empty root: the tree it leaves, as a set of
\* nodes; it raises when one path has to be a file and a directory
ExtractedDirs(nl) ==
  UNION {Parents(nl[i].path) : i \in 1..Len(nl)}
    \cup {nl[i].path : i \in {j \in 1..Len(nl) : nl[j].isdir}}
ExtractedFiles(nl) == {nl[i].path : i \in {j \in 1..Len(nl) : ~nl[j].isdir}}
extractall(nl) ==
  IF ExtractedDirs(nl) \cap ExtractedFiles(nl) # {}
  THEN [ok |-> FALSE, tree |-> {}]
  ELSE [ok |-> TRUE,
        tree |-> {[path |-> p, kind |-> "dir"] : p \in ExtractedDirs(nl)}
                 \cup {[path |-> p, kind |-> "file"] :
                          p \in ExtractedFiles(nl)}]

Raise(exc, msg) == [kind |-> "raise", exc |-> exc, msg |-> msg]

\* install_skill on an archive with this namelist: the path it returns
\* and the tree under the registry root, or the error it raises
install_skill_namelist(nl) ==
  IF nl = <<>> THEN {Raise("SkillsMPError", <<"Failed to install skill">>)}
  ELSE LET x == extractall(nl) IN
       IF x.ok
       THEN {[kind |-> "value", path |-> <<nl[1].path[1]>>, tree |-> x.tree],
             Raise("SkillsMPError", <<"Failed to install skill">>)}
       ELSE {Raise("SkillsMPError", <<"Failed to install skill">>)}

InstallSkillCalls == {[fn |-> "install_skill", namelist |-> nl] : nl \in Namelists}

InstallSkillCall ==
  /\ call.fn = "install_skill"
  /\ ret.kind = "none"
  /\ ret' \in install_skill_namelist(call.namelist)
  /\ UNCHANGED <<engine, call>>

\* -------------------------------------------------- utils.load_api_key
\* texts are sequences of characters: " " is white space, "#" the comment
\* character, "P" stands for the marker your_api_key_here, and the letters
\* e, d, t, x are key material of the environment variable, the
\* development file, the template file and the explicit argument
MaxKeyLen == 2
Texts(chars) == SeqsUpTo(chars, MaxKeyLen)

\* str.strip
RECURSIVE LStrip(_)
LStrip(s) == IF s # <<>> /\ Head(s) = " " THEN LStrip(Tail(s)) ELSE s
RECURSIVE RStrip(_)
RStrip(s) ==
  IF s # <<>> /\ s[Len(s)] = " " THEN RStrip(SubSeq(s, 1, Len(s) - 1)) ELSE s
Strip(s) == RStrip(LStrip(s))

StartsWithHash(s) == s # <<>> /\ Head(s) = "#"
HasPlaceholder(s) == \E i \in 1..Len(s) : s[i] = "P"

\* SKILLSMP_API_KEY: unset, or set to a text
Unset == [set |-> FALSE, text |-> <<>>]
EnvValues ==
  {Unset} \cup {[set |-> TRUE, text |-> t] : t \in {<<>>, <<"e">>, <<" ">>, <<"#">>}}
\* api_key_real.txt and api_key.txt: missing, not readable (open or read
\* raises something other than FileNotFoundError), or holding a text
Missing == [state |-> "missing", text |-> <<>>]
Unreadable == [state |-> "unreadable", text |-> <<>>]
File(t) == [state |-> "text", text |-> t]
DevFiles == {Missing, Unreadable} \cup {File(t) : t \in Texts({" ", "#", "d"})}
TemplateFiles ==
  {Missing, Unreadable} \cup {File(t) : t \in Texts({" ", "#", "t", "P"})}

Key(k, from) == [kind |-> "value", key |-> k, source |-> from]

load_api_key_DevFirst(env, dev, tmpl) ==
  IF dev.state = "unreadable" THEN Raise("OSError", <<>>)
  ELSE IF dev.state = "text" /\ Strip(dev.text) # <<>>
          /\ ~StartsWithHash(Strip(dev.text))
  THEN Key(Strip(dev.text), "dev")
  ELSE IF env.set /\ env.text # <<>> THEN Key(env.text, "env")
  ELSE IF tmpl.state = "unreadable" THEN Raise("OSError", <<>>)
  ELSE IF tmpl.state = "text" /\ Strip(tmpl.text) # <<>>
          /\ ~StartsWithHash(Strip(tmpl.text))
          /\ ~HasPlaceholder(Strip(tmpl.text))
  THEN Key(Strip(tmpl.text), "template")
  ELSE Raise("APIKeyError", <<"No valid API key found">>)
load_api_key_NoMarkerCheck(env, dev, tmpl) ==
  IF env.set /\ env.text # <<>> THEN Key(env.text, "env")
  ELSE IF dev.state = "unreadable" THEN Raise("OSError", <<>>)
  ELSE IF dev.state = "text" /\ Strip(dev.text) # <<>>
          /\ ~StartsWithHash(Strip(dev.text))
  THEN Key(Strip(dev.text), "dev")
  ELSE IF tmpl.state = "unreadable" THEN Raise("OSError", <<>>)
  ELSE IF tmpl.state = "text" /\ Strip(tmpl.text) # <<>>
          /\ ~StartsWithHash(Strip(tmpl.text))
  THEN Key(Strip(tmpl.text), "template")
  ELSE Raise("APIKeyError", <<"No valid API key found">>)
load_api_key(env, dev, tmpl) ==
  IF env.set /\ env.text # <<>> THEN Key(env.text, "env")
  ELSE IF dev.state = "unreadable" THEN Raise("OSError", <<>>)
  ELSE IF dev.state = "text" /\ Strip(dev.text) # <<>>
          /\ ~StartsWithHash(Strip(dev.text))
  THEN Key(Strip(dev.text), "dev")
  ELSE IF tmpl.state = "unreadable" THEN Raise("OSError", <<>>)
  ELSE IF tmpl.state = "text" /\ Strip(tmpl.text) # <<>>
          /\ ~StartsWithHash(Strip(tmpl.text))
          /\ ~HasPlaceholder(Strip(tmpl.text))
  THEN Key(Strip(tmpl.text), "template")
  ELSE Raise("APIKeyError", <<"No valid API key found">>)

LoadApiKeyCalls ==
  {[fn |-> "load_api_key", env |-> e, dev |-> d, tmpl |-> t] :
     e \in EnvValues, d \in DevFiles, t \in TemplateFiles}

LoadApiKeyCall ==
  /\ call.fn = "load_api_key"
  /\ ret.kind = "none"
  /\ ret' = load_api_key(call.env, call.dev, call.tmpl)
  /\ UNCHANGED <<engine, call>>

\* ---------------------------------------------- utils.make_api_request
\* the api_key argument: None, or a text (the empty text is not None)
NoneKey == [given |-> FALSE, text |-> <<>>]
ExplicitKeys == {NoneKey} \cup {[given |-> TRUE, text |-> t] : t \in {<<>>, <<"x">>}}
\* the configurations the calls that send a request are made in
RequestEnvValues == {Unset, [set |-> TRUE, text |-> <<"e">>]}
RequestFiles(c) ==
  {Missing, Unreadable, File(<<c>>), File(<<"#">>), File(<<"P">>)}

DefaultTimeout == 10
Timeouts == {DefaultTimeout, 30}

\* what requests.get does: it raises Timeout, raises another
\* RequestException, or returns a response with a status and a body
Statuses == {200, 304, 401, 404, 500}
Bodies == {"<html>", "[]", "{}", "{error: 'x'}", "{error: null}", "{error: {}}",
           "{error: {message: 'm'}}"}
GetOutcomes ==
  {[kind |-> k, status |-> 0, body |-> ""] : k \in {"timeout", "connection"}}
    \cup {[kind |-> "response", status |-> c, body |-> b] :
            c \in Statuses, b \in Bodies}

\* response.json(): whether the body parses, whether the value is a dict,
\* and what its "error" entry is
json(b) ==
  [ok |-> b # "<html>",
   dict |-> b \notin {"<html>", "[]"},
   error |-> CASE b = "{error: 'x'}" -> "str"
               [] b = "{error: null}" -> "null"
               [] b = "{error: {}}" -> "dict"
               [] b = "{error: {message: 'm'}}" -> "dict with message"
               [] OTHER -> "absent"]

\* Response.raise_for_status
raise_for_status(status) == 400 <= status /\ status < 600

\* what the caller of make_api_request gets, with what was passed to
\* requests.get and what requests.get did
NoOutcome == [kind |-> "none", status |-> 0, body |-> ""]
Requested(r, k, t, o) ==
  [kind |-> r.kind, exc |-> r.exc, msg |-> r.msg, requested |-> TRUE,
   bearer |-> k, timeoutSet |-> t # 0, timeout |-> t, got |-> o]
NotRequested(r) ==
  [kind |-> r.kind, exc |-> r.exc, msg |-> r.msg, requested |-> FALSE,
   bearer |-> <<>>, timeoutSet |-> FALSE, timeout |-> 0, got |-> NoOutcome]
Returned(data) == [kind |-> "value", exc |-> "", msg |-> <<data>>]

\* error_data.get('error', {}).get('message', fallback) on a 401 body,
\* evaluated inside the except clause
AuthMessage(b, fallback) ==
  IF ~json(b).ok THEN Raise("JSONDecodeError", <<>>)
  ELSE IF ~json(b).dict \/ json(b).error \in {"str", "null"}
  THEN Raise("AttributeError", <<>>)
  ELSE IF json(b).error = "dict with message"
  THEN [kind |-> "value", exc |-> "", msg |-> <<"m">>]
  ELSE [kind |-> "value", exc |-> "", msg |-> <<fallback>>]

\* the body of the try statement and its except clauses; a body that does
\* not parse raises a JSONDecodeError that is a RequestException in
\* requests 2.27 and later and a plain ValueError before
SendRequest(timeout, o) ==
  IF o.kind = "timeout"
  THEN {Raise("APIRequestError", <<"Request timed out after", timeout>>)}
  ELSE IF o.kind = "connection"
  THEN {Raise("APIRequestError", <<"Request failed">>)}
  ELSE IF raise_for_status(o.status)
  THEN IF o.status = 401
       THEN LET m == AuthMessage(o.body, "Invalid API key") IN
            IF m.kind = "raise" THEN {m}
            ELSE {Raise("APIRequestError",
                        <<"API authentication failed">> \o m.msg)}
       ELSE {Raise("APIRequestError", <<"HTTP error", o.status>>)}
  ELSE IF json(o.body).ok THEN {Returned(o.body)}
  ELSE {Raise("JSONDecodeError", <<>>),
        Raise("APIRequestError", <<"Request failed">>)}

make_api_request(api_key, env, dev, tmpl, timeout, o) ==
  LET cred == IF api_key.given THEN Key(api_key.text, "explicit")
              ELSE load_api_key(env, dev, tmpl) IN
  IF cred.kind = "raise" THEN {NotRequested(cred)}
  ELSE {Requested(r, cred.key, timeout, o) : r \in SendRequest(timeout, o)}

MakeApiRequestCalls ==
  {[fn |-> "make_api_request", api_key |-> x, env |-> e, dev |-> d,
    tmpl |-> t, timeout |-> n] :
     x \in ExplicitKeys, e \in RequestEnvValues, d \in RequestFiles("d"),
     t \in RequestFiles("t"), n \in Timeouts}

MakeApiRequestCall ==
  /\ call.fn = "make_api_request"
  /\ ret.kind = "none"
  /\ \E o \in GetOutcomes :
       ret' \in make_api_request(call.api_key, call.env, call.dev, call.tmpl,
                                 call.timeout, o)
  /\ UNCHANGED <<engine, call>>

\* ------------------------- search_skills.search_skills, ai_search.ai_search
\* the load_api_key of search_skills.py and ai_search.py: the same three
\* sources, and sys.exit(1) where utils.load_api_key raises APIKeyError
SearchLoadApiKey(env, dev, tmpl) ==
  LET k == load_api_key(env, dev, tmpl) IN
  IF k.kind = "raise" /\ k.exc = "APIKeyError"
  THEN Raise("SystemExit", <<1>>) ELSE k

\* requests.get(url, headers=headers, params=params) and the except
\* clauses of the two entry points
SearchSend(o) ==
  IF o.kind \in {"timeout", "connection"} THEN {Raise("SystemExit", <<1>>)}
  ELSE IF raise_for_status(o.status)
  THEN IF o.status = 401
       THEN LET m == AuthMessage(o.body, "Authentication failed") IN
            IF m.kind = "raise" THEN {m} ELSE {Raise("SystemExit", <<1>>)}
       ELSE {Raise("SystemExit", <<1>>)}
  ELSE IF json(o.body).ok THEN {Returned(o.body)}
  ELSE {Raise("JSONDecodeError", <<>>), Raise("SystemExit", <<1>>)}

search_skills(api_key, env, dev, tmpl, o) ==
  LET cred == IF api_key.given THEN Key(api_key.text, "explicit")
              ELSE SearchLoadApiKey(env, dev, tmpl) IN
  IF cred.kind = "raise" THEN {NotRequested(cred)}
  ELSE {Requested(r, cred.key, 0, o) : r \in SearchSend(o)}

ai_search(api_key, env, dev, tmpl, o) == search_skills(api_key, env, dev, tmpl, o)

SearchCalls ==
  {[fn |-> f, api_key |-> x, env |-> e, dev |-> d, tmpl |-> t] :
     f \in {"search_skills", "ai_search"}, x \in ExplicitKeys,
     e \in RequestEnvValues, d \in RequestFiles("d"), t \in RequestFiles("t")}

SearchSkillsCall ==
  /\ call.fn = "search_skills"
  /\ ret.kind = "none"
  /\ \E o \in GetOutcomes :
       ret' \in search_skills(call.api_key, call.env, call.dev, call.tmpl, o)
  /\ UNCHANGED <<engine, call>>

AiSearchCall ==
  /\ call.fn = "ai_search"
  /\ ret.kind = "none"
  /\ \E o \in GetOutcomes :
       ret' \in ai_search(call.api_key, call.env, call.dev, call.tmpl, o)
  /\ UNCHANGED <<engine, call>>


\* --------------- check_updates.search_skill_on_skillsmp and its twin
\* records of data.skills: the keys the code reads; a key can be missing
MaxResults == 2
NoName == "<no name>"
RemoteNames == {"foo", "Foo", "bar"}
SearchRecords == [name : RemoteNames \cup {NoName}, stars : {0, 1}]
NoRecord == [name |-> NoName, stars |-> 0]

\* skill.get("name", "")
GetName(rec) == IF rec.name = NoName THEN "" ELSE rec.name

\* what make_api_request gave for /skills/search: the parsed answer, or an
\* exception
SearchAnswers ==
  {[kind |-> "value", exc |-> "", success |-> ok, skills |-> l] :
     ok \in BOOLEAN, l \in SeqsUpTo(SearchRecords, MaxResults)}
    \cup {[kind |-> "raise", exc |-> x, success |-> FALSE, skills |-> <<>>] :
            x \in {"APIRequestError", "APIKeyError", "JSONDecodeError"}}

\* APIKeyError and APIRequestError are SkillsMPErrors
IsSkillsMPError(x) == x \in {"SkillsMPError", "APIKeyError", "APIRequestError"}

Match(rec) == [kind |-> "value", exc |-> "", found |-> TRUE, record |-> rec]
NoMatchFound == [kind |-> "value", exc |-> "", found |-> FALSE, record |-> NoRecord]
Escapes(x) == [kind |-> "raise", exc |-> x, found |-> FALSE, record |-> NoRecord]

search_skill_on_skillsmp_FirstOnly(name, answer) ==
  IF answer.kind = "raise"
  THEN IF IsSkillsMPError(answer.exc) THEN NoMatchFound ELSE Escapes(answer.exc)
  ELSE IF ~answer.success THEN NoMatchFound
  ELSE IF answer.skills = <<>> THEN NoMatchFound
  ELSE Match(answer.skills[1])
search_skill_on_skillsmp(name, answer) ==
  IF answer.kind = "raise"
  THEN IF IsSkillsMPError(answer.exc) THEN NoMatchFound ELSE Escapes(answer.exc)
  ELSE IF ~answer.success THEN NoMatchFound
  ELSE IF answer.skills = <<>> THEN NoMatchFound
  ELSE LET exact == {i \in 1..Len(answer.skills) :
                       Lower(GetName(answer.skills[i])) = Lower(name)} IN
       IF exact # {}
       THEN Match(answer.skills[CHOOSE i \in exact : \A j \in exact : i <= j])
       ELSE Match(answer.skills[1])

\* skill_diff.get_skill_details_from_skillsmp: the same statements
get_skill_details_from_skillsmp(name, answer) ==
  search_skill_on_skillsmp(name, answer)

LookupCalls ==
  {[fn |-> f, name |-> n, answer |-> a] :
     f \in {"search_skill_on_skillsmp", "get_skill_details_from_skillsmp"},
     n \in RequestNames, a \in SearchAnswers}

SearchSkillOnSkillsmpCall ==
  /\ call.fn = "search_skill_on_skillsmp"
  /\ ret.kind = "none"
  /\ ret' = search_skill_on_skillsmp(call.name, call.answer)
  /\ UNCHANGED <<engine, call>>

GetSkillDetailsCall ==
  /\ call.fn = "get_skill_details_from_skillsmp"
  /\ ret.kind = "none"
  /\ ret' = get_skill_details_from_skillsmp(call.name, call.answer)
  /\ UNCHANGED <<engine, call>>


\* ------------------------------------------- skill_diff.compare_versions
\* a dict is the sequence of its items, <<key, value>>, in the order of
\* its keys; "L1" and "L2" are two descriptions longer than 100 characters
\* that share their first 100
Items(keys, values) ==
  {d \in UNION {[1..n -> UNION {{<<keys[a], v>> : v \in values[keys[a]]} :
                                    a \in 1..Len(keys)}] :
                  n \in 0..Len(keys)} :
     /\ \A i, j \in DOMAIN d : i < j =>
          \E a, b \in 1..Len(keys) : a < b /\ keys[a] = d[i][1] /\ keys[b] = d[j][1]}
LocalValues ==
  [k \in {"name", "description", "author"} |->
     IF k = "description" THEN {"", "x", "L1"} ELSE {"", "x"}]
RemoteValues ==
  [k \in {"name", "description", "author", "stars"} |->
     IF k = "stars" THEN {0, 5}
     ELSE IF k = "description" THEN {"", "x", "y", "L2"} ELSE {"", "x", "y"}]

\* dict.get(key, default)
Get(d, key, default) ==
  IF \E i \in DOMAIN d : d[i][1] = key
  THEN d[CHOOSE i \in DOMAIN d : d[i][1] = key][2]
  ELSE default

\* text[:100]
First100(text) == IF text \in {"L1", "L2"} THEN "L[:100]" ELSE text

\* an entry of the field list; the stars entry has no local value and its
\* number is kept apart from the texts
FieldEntry(field, l, r, n) == [field |-> field, local |-> l, remote |-> r, stars |-> n]

\* the entry appended for a key of the front matter, if any
Changed_OneSideEnough(local, remote, key) ==
  Get(local, key, "") # Get(remote, key, "")
Changed(local, remote, key) ==
  Get(local, key, "") # "" /\ Get(remote, key, "") # ""
    /\ Get(local, key, "") # Get(remote, key, "")

compare_versions(local, remote) ==
  [kind |-> "value",
   name_changed |-> Changed(local, remote, "name"),
   description_changed |-> Changed(local, remote, "description"),
   author_changed |-> Changed(local, remote, "author"),
   stars_changed |-> TRUE,
   fields |->
     (IF Changed(local, remote, "name")
      THEN <<FieldEntry("name", Get(local, "name", ""), Get(remote, "name", ""), 0)>>
      ELSE <<>>)
     \o (IF Changed(local, remote, "description")
         THEN <<FieldEntry("description",
                           First100(Get(local, "description", "")),
                           First100(Get(remote, "description", "")), 0)>>
         ELSE <<>>)
     \o (IF Changed(local, remote, "author")
         THEN <<FieldEntry("author", Get(local, "author", ""),
                           Get(remote, "author", ""), 0)>>
         ELSE <<>>)
     \o <<FieldEntry("stars", "", "", Get(remote, "stars", 0))>>]

CompareCalls ==
  {[fn |-> "compare_versions", local |-> l, remote |-> r] :
     l \in Items(<<"name", "description", "author">>, LocalValues),
     r \in Items(<<"name", "description", "author", "stars">>, RemoteValues)}

CompareVersionsCall ==
  /\ call.fn = "compare_versions"
  /\ ret.kind = "none"
  /\ ret' = compare_versions(call.local, call.remote)
  /\ UNCHANGED <<engine, call>>


\* --------------------------------------- check_updates.check_skill_updates
MaxInstalled == 2
MaxTime == 3

\* the updatedAt of a remote record: absent, null, a text or a number of
\* seconds
UpdatedAts ==
  {[t |-> k, v |-> 0] : k \in {"missing", "null", "str"}}
    \cup {[t |-> "int", v |-> n] : n \in 0..MaxTime}
ScanAnswers ==
  {[kind |-> "raise", exc |-> x, success |-> FALSE, skills |-> <<>>] :
     x \in {"APIRequestError", "JSONDecodeError"}}
    \cup {[kind |-> "value", exc |-> "", success |-> ok, skills |-> <<>>] :
            ok \in BOOLEAN}
    \cup {[kind |-> "value", exc |-> "", success |-> TRUE, skills |-> <<r>>] :
            r \in [name : {"foo"}, stars : {0}, updatedAt : UpdatedAts]}

\* the installed skills as get_installed_skills_with_metadata lists them
ScanNames == <<"foo", "bar", "zap">>
InstalledLists ==
  UNION {{l \in [1..n -> [name : {ScanNames[i] : i \in 1..n}, local_modified : {0, 1}]] :
            \A i \in 1..n : l[i].name = ScanNames[i]} : n \in 0..MaxInstalled}

\* datetime.fromtimestamp(unix_timestamp).strftime("%Y-%m-%d")
format_timestamp(u) ==
  IF u.t # "int" THEN [kind |-> "raise", exc |-> "TypeError", date |-> 0]
  ELSE [kind |-> "value", exc |-> "", date |-> u.v \div 86400]

UpdateAvailable_NoTolerance(remote_updated, local_mtime) ==
  remote_updated > local_mtime
UpdateAvailable(remote_updated, local_mtime) ==
  remote_updated > local_mtime + 1

NoUpdates ==
  [kind |-> "value", exc |-> "", updates |-> <<>>, up_to_date |-> <<>>,
   not_found |-> <<>>, errors |-> <<>>, checked |-> 0]
ScanEscapes(x, i) ==
  [kind |-> "raise", exc |-> x, updates |-> <<>>, up_to_date |-> <<>>,
   not_found |-> <<>>, errors |-> <<>>, checked |-> i]

\* the loop of lines 157-202 from item i on; checked counts the lookups made
RECURSIVE ScanFrom(_, _, _, _)
ScanFrom(installed, answers, i, acc) ==
  IF i > Len(installed) THEN acc
  ELSE
    LET skill == installed[i]
        remote_skill == search_skill_on_skillsmp(skill.name, answers[i])
        seen == [acc EXCEPT !.checked = i]
    IN
    IF remote_skill.kind = "raise" THEN ScanEscapes(remote_skill.exc, i)
    ELSE IF ~remote_skill.found
    THEN ScanFrom(installed, answers, i + 1,
                  [seen EXCEPT !.not_found = Append(@, skill)])
    ELSE
      LET updatedAt == remote_skill.record.updatedAt
          remote_updated == IF updatedAt.t = "missing"
                            THEN [t |-> "int", v |-> 0] ELSE updatedAt
          remote_updated_date == format_timestamp(remote_updated)
      IN
      IF remote_updated_date.kind = "raise"
      THEN ScanEscapes(remote_updated_date.exc, i)
      ELSE IF UpdateAvailable(remote_updated.v, skill.local_modified)
      THEN ScanFrom(installed, answers, i + 1,
                    [seen EXCEPT !.updates =
                       Append(@, [name |-> skill.name,
                                  remote_date |-> remote_updated_date.date,
                                  local_timestamp |-> skill.local_modified,
                                  remote_timestamp |-> remote_updated.v,
                                  stars |-> remote_skill.record.stars])])
      ELSE ScanFrom(installed, answers, i + 1,
                    [seen EXCEPT !.up_to_date = Append(@, skill)])

check_skill_updates(installed, answers) ==
  IF installed = <<>> THEN NoUpdates
  ELSE ScanFrom(installed, answers, 1, NoUpdates)

ScanCalls ==
  {c \in [fn : {"check_skill_updates"}, installed : InstalledLists,
           answers : SeqsUpTo(ScanAnswers, MaxInstalled)] :
     Len(c.answers) = Len(c.installed)}

CheckSkillUpdatesCall ==
  /\ call.fn = "check_skill_updates"
  /\ ret.kind = "none"
  /\ ret' = check_skill_updates(call.installed, call.answers)
  /\ UNCHANGED <<engine, call>>


\* ------------------------------------------------------ utils.load_proxies
\* os.environ.get(name): None when the variable is not set
NotSet == "<not set>"
ProxyEnvs ==
  [{"HTTP_PROXY", "http_proxy", "HTTPS_PROXY", "https_proxy"}
     -> {NotSet, "", "http://a", "http://b"}]

\* a or b
Truthy(v) == v # NotSet /\ v # ""
OrElse(a, b) == IF Truthy(a) THEN a ELSE b

NoEntry == "<no entry>"

load_proxies_LowerFirst(env) ==
  LET http_proxy == OrElse(env.http_proxy, env.HTTP_PROXY)
      https_proxy == OrElse(env.https_proxy, env.HTTPS_PROXY)
  IN IF Truthy(http_proxy) \/ Truthy(https_proxy)
     THEN [kind |-> "value", none |-> FALSE,
           http |-> IF Truthy(http_proxy) THEN http_proxy ELSE NoEntry,
           https |-> IF Truthy(https_proxy) THEN https_proxy ELSE NoEntry]
     ELSE [kind |-> "value", none |-> TRUE, http |-> NoEntry, https |-> NoEntry]
load_proxies(env) ==
  LET http_proxy == OrElse(env.HTTP_PROXY, env.http_proxy)
      https_proxy == OrElse(env.HTTPS_PROXY, env.https_proxy)
  IN IF Truthy(http_proxy) \/ Truthy(https_proxy)
     THEN [kind |-> "value", none |-> FALSE,
           http |-> IF Truthy(http_proxy) THEN http_proxy ELSE NoEntry,
           https |-> IF Truthy(https_proxy) THEN https_proxy ELSE NoEntry]
     ELSE [kind |-> "value", none |-> TRUE, http |-> NoEntry, https |-> NoEntry]

ProxyCalls == {[fn |-> "load_proxies", env |-> e] : e \in ProxyEnvs}

LoadProxiesCall ==
  /\ call.fn = "load_proxies"
  /\ ret.kind = "none"
  /\ ret' = load_proxies(call.env)
  /\ UNCHANGED <<engine, call>>


\* --------------------------- skill_downloader: the download address, by text
\* a URL is the sequence of its pieces: "/" or a piece without a slash
MaxUrlLen == 6
UrlTokens == {"github.com", "/", "a", "b"}
NoneUrl == [none |-> TRUE, text |-> <<>>]
Url(t) == [none |-> FALSE, text |-> t]
SkillNames == {"foo", "Foo"}

\* [^/]+ from position i: the pieces up to the next slash or the end
Run(t, i) ==
  LET stops == {j \in i..Len(t) : t[j] = "/"}
      stop == IF stops = {} THEN Len(t) + 1
              ELSE CHOOSE j \in stops : \A k \in stops : j <= k
  IN SubSeq(t, i, stop - 1)

\* the positions where github\.com/([^/]+)/([^/]+) matches
Matches(t) ==
  {i \in 1..Len(t) :
     /\ t[i] = "github.com"
     /\ i + 1 <= Len(t) /\ t[i + 1] = "/"
     /\ Run(t, i + 2) # <<>>
     /\ i + 2 + Len(Run(t, i + 2)) <= Len(t)
     /\ Run(t, i + 3 + Len(Run(t, i + 2))) # <<>>}

ReleaseUrl(owner, repo, filename) ==
  <<"https:", "/", "/", "github.com", "/">> \o owner \o <<"/">> \o repo
    \o <<"/", "releases", "/", "latest", "/", "download", "/">> \o filename

NoAddress == [kind |-> "value", resolved |-> FALSE, url |-> <<>>]
Address(t) == [kind |-> "value", resolved |-> TRUE, url |-> t]

\* infer_download_url on the text of the URL
infer_download_url_text_RepoFile(github_url, name) ==
  IF Matches(github_url) = {} THEN NoAddress
  ELSE LET i == CHOOSE m \in Matches(github_url) :
                  \A n \in Matches(github_url) : m <= n
           owner == Run(github_url, i + 2)
           repo == Run(github_url, i + 3 + Len(owner))
       IN Address(ReleaseUrl(owner, repo, repo \o <<".skill">>))
infer_download_url_text(github_url, name) ==
  IF Matches(github_url) = {} THEN NoAddress
  ELSE LET i == CHOOSE m \in Matches(github_url) :
                  \A n \in Matches(github_url) : m <= n
           owner == Run(github_url, i + 2)
           repo == Run(github_url, i + 3 + Len(owner))
           possible_filenames ==
             <<<<name, ".skill">>, repo \o <<".skill">>,
               owner \o <<"-">> \o repo \o <<".skill">>>>
       IN Address(ReleaseUrl(owner, repo, possible_filenames[1]))

\* not u, for None and ""
FalsyUrl(u) == u.none \/ u.text = <<>>

\* install_skill_update, lines 170-177
download_address(download_url, github_url, name) ==
  LET inferred ==
        IF FalsyUrl(download_url) /\ ~FalsyUrl(github_url)
        THEN infer_download_url_text(github_url.text, name)
        ELSE IF download_url.none THEN NoAddress ELSE Address(download_url.text)
  IN IF ~inferred.resolved \/ inferred.url = <<>> THEN NoAddress ELSE inferred

\* every repository URL without a direct one, and some with
AddressCalls ==
  {[fn |-> "download_address", download_url |-> d, github_url |-> g, name |-> n] :
     d \in {NoneUrl},
     g \in {NoneUrl} \cup {Url(t) : t \in SeqsUpTo(UrlTokens, MaxUrlLen)},
     n \in SkillNames}
  \cup
  {[fn |-> "download_address", download_url |-> d, github_url |-> g, name |-> n] :
     d \in {NoneUrl, Url(<<>>), Url(<<"https:", "/", "/", "cdn", "/", "x.skill">>)},
     g \in {NoneUrl, Url(<<>>), Url(<<"github.com", "/", "a", "/", "b">>),
            Url(<<"a", "/", "b">>)},
     n \in SkillNames}

DownloadAddressCall ==
  /\ call.fn = "download_address"
  /\ ret.kind = "none"
  /\ ret' = download_address(call.download_url, call.github_url, call.name)
  /\ UNCHANGED <<engine, call>>


\* ------------------------------------- the two readers of SKILL.md, by line
\* a manifest is the sequence of its lines
MaxLines == 4
FirstLines == 30
ManifestLines == {"---", "name: foo", "name: bar", "name:", "description: x"}

\* the groups of ^(\w+):\s*(.+)$ on one line, value stripped
IsField(line) == line \in {"name: foo", "name: bar", "description: x"}
LineKey(line) == IF line = "description: x" THEN "description" ELSE "name"
LineValue(line) ==
  IF line = "name: foo" THEN "foo"
  ELSE IF line = "name: bar" THEN "bar" ELSE "x"

Put(fm, key, value) ==
  [k \in DOMAIN fm \cup {key} |-> IF k = key THEN value ELSE fm[k]]

\* skill_diff.extract_frontmatter: the loop over content.split("\n")[:30]
RECURSIVE FrontmatterFrom(_, _, _, _)
FrontmatterFrom(lines, i, in_frontmatter, frontmatter) ==
  IF i > Len(lines) \/ i > FirstLines THEN frontmatter
  ELSE IF lines[i] = "---"
  THEN IF ~in_frontmatter THEN FrontmatterFrom(lines, i + 1, TRUE, frontmatter)
       ELSE frontmatter
  ELSE IF in_frontmatter /\ IsField(lines[i])
  THEN FrontmatterFrom(lines, i + 1, in_frontmatter,
                       Put(frontmatter, LineKey(lines[i]), LineValue(lines[i])))
  ELSE FrontmatterFrom(lines, i + 1, in_frontmatter, frontmatter)
extract_frontmatter(lines) == FrontmatterFrom(lines, 1, FALSE, [k \in {} |-> ""])

\* check_updates.get_skill_name_from_md: re.search of ^name:\s*(.+)$ with
\* re.MULTILINE in the whole text; after 'name:' alone \s* runs over the
\* line break and the group is the next line
NoneName == "<None>"
NameMatches(lines) ==
  {i \in 1..Len(lines) :
     \/ lines[i] \in {"name: foo", "name: bar"}
     \/ lines[i] = "name:" /\ i < Len(lines)}
get_skill_name_from_md_text(lines) ==
  IF NameMatches(lines) = {} THEN NoneName
  ELSE LET i == CHOOSE m \in NameMatches(lines) : \A n \in NameMatches(lines) : m <= n
       IN IF lines[i] = "name:" THEN lines[i + 1] ELSE LineValue(lines[i])

ReaderCalls ==
  {[fn |-> f, lines |-> l] :
     f \in {"get_skill_name_from_md", "extract_frontmatter"},
     l \in SeqsUpTo(ManifestLines, MaxLines)}

GetSkillNameFromMdCall ==
  /\ call.fn = "get_skill_name_from_md"
  /\ ret.kind = "none"
  /\ ret' = [kind |-> "value", name |-> get_skill_name_from_md_text(call.lines)]
  /\ UNCHANGED <<engine, call>>

ExtractFrontmatterCall ==
  /\ call.fn = "extract_frontmatter"
  /\ ret.kind = "none"
  /\ ret' = [kind |-> "value", frontmatter |-> extract_frontmatter(call.lines)]
  /\ UNCHANGED <<engine, call>>

\* ------------------------------------------- calls of the single functions
EmptyRoot == [d \in DirNames |-> Absent]

InitCalls ==
  /\ fs = EmptyRoot
  /\ fs0 = fs
  /\ Idle
  /\ call \in InstallSkillCalls \cup LoadApiKeyCalls \cup MakeApiRequestCalls
               \cup SearchCalls
               \cup LookupCalls
               \cup CompareCalls
               \cup ScanCalls
               \cup ProxyCalls
               \cup AddressCalls
               \cup ReaderCalls
  /\ ret = NoRet

NextCalls ==
  \/ InstallSkillCall
  \/ LoadApiKeyCall
  \/ MakeApiRequestCall
  \/ SearchSkillsCall
  \/ AiSearchCall
  \/ SearchSkillOnSkillsmpCall
  \/ GetSkillDetailsCall
  \/ CompareVersionsCall
  \/ CheckSkillUpdatesCall
  \/ LoadProxiesCall
  \/ DownloadAddressCall
  \/ GetSkillNameFromMdCall
  \/ ExtractFrontmatterCall

SpecCalls == InitCalls /\ [][NextCalls]_vars

\* ================================================================ claims
DownloadFailures == {"404", "http_error", "timeout", "connection_error"}

\* the directory found by RESOLVE_TARGET is as it was when the invocation
\* started
OriginalIntact == fs[skill_dir] = fs0[skill_dir]

\* the sibling "<dir>.backup" holds a copy of the original directory
BackupCopyExists ==
  /\ BackupName(skill_dir) \in DirNames
  /\ fs[BackupName(skill_dir)] = fs0[skill_dir]

\* only the sibling backup directory of the target differs from the start
OnlyBackupDiffers ==
  \A d \in DirNames \ {BackupName(skill_dir)} : fs[d] = fs0[d]

\* C1 (as claimed): in every state of an invocation the original directory
\* is intact or a backup copy of it exists, except after a failed restore
\* that follows a failed extraction.
C1_RecoverableEverywhere ==
  skill_dir # NoDir =>
    \/ OriginalIntact
    \/ BackupCopyExists
    \/ (failure = "RestoreFailed" /\ ~extracted)

\* C1 (amended): in every state of an invocation in which the removal of
\* the old directory has not yet been attempted, the original directory is
\* intact or a backup copy of it exists.
C1_RecoverableUntilReplace ==
  (skill_dir # NoDir /\ ~removeStarted) =>
    (OriginalIntact \/ BackupCopyExists)

C1_Witness ==
  /\ pc = "remove"
  /\ backupMade
  /\ OriginalIntact
  /\ BackupCopyExists

\* C2: when the removal of the old directory fails, nothing is extracted
\* and the backup made in BACKUP still exists when the failure is returned.
C2_BackupKeptOnRemovalFailure ==
  (pc = "done" /\ failure = "ReplaceFailed" /\ backupMade) =>
    (~extracted /\ fs[backup_path] = fs0[skill_dir])

\* C3: after any download failure the invocation returns False, the
\* original directory is unchanged, nothing was extracted and the backup it
\* created is still there.
C3_DownloadFailureIsHarmless ==
  (pc = "done" /\ dl \in DownloadFailures) =>
    /\ result = "False"
    /\ OriginalIntact
    /\ OnlyBackupDiffers
    /\ ~extracted /\ installed_path = NoDir /\ ~removeStarted
    /\ backupMade => fs[backup_path] = fs0[skill_dir]

C3_Witness ==
  /\ pc = "done"
  /\ dl = "404"
  /\ backupMade
  /\ result = "False"

\* C4: the old directory is removed only after the downloaded file was
\* opened as a zip archive with at least one entry; a file that is no
\* archive or has no entries makes the invocation fail with the old
\* directory unchanged.
C4_ValidateBeforeRemove ==
  /\ removeStarted => (dl = "ok" /\ archive.kind = "pkg")
  /\ (pc = "done" /\ archive.kind \in {"notzip", "empty"}) =>
       (result = "False" /\ OriginalIntact /\ ~removeStarted)

C4_Witness ==
  /\ pc = "done"
  /\ archive.kind = "empty"
  /\ result = "False"
  /\ OriginalIntact

\* C5: old directory removed, backup present, extraction failed, restore
\* succeeded: the registry root equals the registry root before the
\* invocation and the invocation reports failure.
C5_RestoreGivesInitialRegistry ==
  (pc = "done" /\ failure = "InstallFailedRestored" /\ ~extracted) =>
    (fs = fs0 /\ result = "False")

\* C6: the outcome reported for a failed restore differs from the outcome
\* reported for every other failure.
C6_RestoreFailedDistinguishable ==
  \A p \in reported, q \in reported :
    (p[1] = "RestoreFailed" /\ q[1] = "other failure") => p[2] # q[2]

\* C7: success is reported only after a successful extraction, the backup
\* is deleted only after a successful extraction, and on success no backup
\* of this invocation remains and the reported installed path exists.
C7_CommitAfterExtraction ==
  /\ result = "True" => extracted
  /\ backupDeleted => extracted
  /\ result = "True" =>
       /\ backupMade => ~Exists(fs, backup_path)
       /\ Exists(fs, installed_path)

\* C8: once the invocation has returned, the backup directory it created
\* no longer exists, whatever the outcome.
C8_NoBackupAfterReturn ==
  (pc = "done" /\ backupMade) => ~Exists(fs, backup_path)

\* C9: right after BACKUP either the sibling backup path holds a full copy
\* of the installed directory, or the backup failed and none is recorded;
\* in both cases the step leads on to DOWNLOAD.
C9_BackupOrProceed ==
  /\ [](  (pc = "download" /\ backup) =>
            \/ /\ backup_path = BackupName(skill_dir)
               /\ fs[backup_path] = fs[skill_dir]
               /\ backupMade
            \/ /\ backup_path = NoDir
               /\ ~backupMade)
  /\ [][pc = "backup" => pc' = "download"]_vars

\* the backup failed and the invocation still committed
C9_Witness ==
  /\ pc = "done"
  /\ backup
  /\ backup_path = NoDir
  /\ result = "True"

\* no installed package (a directory whose manifest yields a non-empty
\* name) carries the requested name
NoMatch ==
  ~ \E d \in DirNames :
      /\ HasManifest(fs0, d)
      /\ FrontmatterName(fs0, d) # ""
      /\ Lower(FrontmatterName(fs0, d)) = Lower(skill_name)

\* C10: without a package of the requested name, or without a download
\* address, the invocation fails in RESOLVE_TARGET and the registry root is
\* unchanged: no backup, no download, no removal, no extraction.
C10_ResolveFailureChangesNothing ==
  (pc # "idle" /\ (NoMatch \/ Falsy(url))) =>
    /\ pc = "done"
    /\ result = "False"
    /\ failure \in {"PackageNotFound", "NoDownloadSource"}
    /\ fs = fs0
    /\ backup_path = NoDir /\ dl = "none"
    /\ ~removeStarted /\ ~extracted /\ ~backupMade

\* C11: after install_skill_update has returned True for an archive of the
\* requested package, the listing of the registry holds exactly one
\* directory whose manifest carries the package's name, and the directory
\* that was replaced is gone unless the package was installed under the
\* same directory name
C11_InstalledListedOnce ==
  (pc = "done" /\ result = "True"
     /\ Lower(archive.manifest) = Lower(skill_name)) =>
    /\ Cardinality({d \in list_installed_skills(fs) :
                      Lower(FrontmatterName(fs, d)) = Lower(skill_name)}) = 1
    /\ (installed_path # skill_dir => ~Exists(fs, skill_dir))

\* C12: when install_skill_update has returned True for an archive of the
\* requested package and is run again with the same name, backup flag and
\* archive, and no download or file operation of either run fails, the
\* second run returns True too, reports the same installed directory and
\* leaves the registry as the first run left it
C12_SecondRunSame ==
  (/\ pc = "done"
   /\ first.result = "True"
   /\ Lower(first.archive.manifest) = Lower(first.name)
   /\ first.backup => first.backupMade
   /\ skill_name = first.name
   /\ backup = first.backup
   /\ \/ failure = "PackageNotFound"
      \/ failure = "none" /\ archive = first.archive
                          /\ (backup => backupMade)) =>
    /\ result = "True"
    /\ installed_path = first.path
    /\ fs = first.fs

\* C13: for every archive with at least one entry, the path install_skill
\* returns is the registry root joined with the first path component of
\* the first entry, and after the extraction that path is a directory
\* under the root
C13_InstalledPathIsDirectory ==
  (call.fn = "install_skill" /\ ret.kind = "value") =>
    /\ ret.path = <<call.namelist[1].path[1]>>
    /\ [path |-> ret.path, kind |-> "dir"] \in ret.tree

\* what each credential source offers: whether it yields a usable value,
\* and the value (the explicit argument when given, the environment
\* variable when not empty, the stripped text of a file when it is not
\* empty, no comment and, for the template, free of the marker)
Offer(usable, value) == [usable |-> usable, value |-> value]
FileOffer(f, template) ==
  Offer(/\ f.state = "text"
        /\ Strip(f.text) # <<>>
        /\ ~StartsWithHash(Strip(f.text))
        /\ ~(template /\ HasPlaceholder(Strip(f.text))),
        Strip(f.text))
LoaderOffers(c) ==
  <<Offer(c.env.set /\ c.env.text # <<>>, c.env.text),
    FileOffer(c.dev, FALSE),
    FileOffer(c.tmpl, TRUE)>>
Offers(c) == <<Offer(c.api_key.given, c.api_key.text)>> \o LoaderOffers(c)
FilesReadable(c) == c.dev.state # "unreadable" /\ c.tmpl.state # "unreadable"

FirstUsable(o) ==
  LET usable == {i \in 1..Len(o) : o[i].usable} IN
  IF usable = {} THEN 0 ELSE CHOOSE j \in usable : \A k \in usable : j <= k

\* C14: whatever the four credential sources hold (files present or
\* absent), make_api_request sends the value of the first source, in the
\* order explicit argument, environment variable, development file,
\* template file, that yields a usable value, and sends no request with
\* APIKeyError when none does; load_api_key returns the value of the
\* first of the last three
C14_FirstUsableSourceIsUsed ==
  /\ (call.fn = "make_api_request" /\ ret.kind # "none"
        /\ FilesReadable(call)) =>
       LET o == Offers(call) IN
       IF FirstUsable(o) = 0
       THEN ~ret.requested /\ ret.exc = "APIKeyError"
       ELSE ret.requested /\ ret.bearer = o[FirstUsable(o)].value
  /\ (call.fn = "load_api_key" /\ ret.kind # "none"
        /\ FilesReadable(call)) =>
       LET o == LoaderOffers(call) IN
       IF FirstUsable(o) = 0
       THEN ret.kind = "raise" /\ ret.exc = "APIKeyError"
       ELSE ret.kind = "value" /\ ret.key = o[FirstUsable(o)].value
              /\ ret.source = <<"env", "dev", "template">>[FirstUsable(o)]

\* a request went out with the development file's key although the
\* template file offered one too and the environment variable was empty
C14_Witness ==
  /\ call.fn = "make_api_request"
  /\ ret.kind # "none"
  /\ ~call.api_key.given /\ ~call.env.set
  /\ call.dev = File(<<"d">>)
  /\ call.tmpl = File(<<"t">>)
  /\ ret.requested /\ ret.bearer = <<"d">>

\* C15: load_api_key never returns a template-file value that contains
\* the marker your_api_key_here or starts with "#", and with such a
\* template file it returns or raises what it does when the template
\* file is missing
C15_TemplatePlaceholderRejected ==
  (call.fn = "load_api_key" /\ ret.kind # "none") =>
    /\ (ret.kind = "value" /\ ret.source = "template") =>
         ~HasPlaceholder(ret.key) /\ ~StartsWithHash(ret.key)
    /\ (/\ call.tmpl.state = "text"
        /\ \/ HasPlaceholder(call.tmpl.text)
           \/ StartsWithHash(Strip(call.tmpl.text))) =>
         ret = load_api_key(call.env, call.dev, Missing)

\* the template file still holds the marker next to key material, nothing
\* else is configured, and load_api_key has raised APIKeyError
C15_Witness ==
  /\ call.fn = "load_api_key"
  /\ call.env = Unset /\ call.dev = Missing
  /\ call.tmpl = File(<<"t", "P">>)
  /\ ret.kind = "raise" /\ ret.exc = "APIKeyError"

\* C16: load_api_key raises APIKeyError exactly when none of the
\* environment variable, the development file and the template file
\* yields a usable value (a source that is unset, missing, unreadable,
\* empty or rejected yields none); otherwise it returns a non-empty
\* credential; it raises nothing but APIKeyError
C16_OnlyAPIKeyError ==
  (call.fn = "load_api_key" /\ ret.kind # "none") =>
    IF \E i \in 1..3 : LoaderOffers(call)[i].usable
    THEN ret.kind = "value" /\ ret.key # <<>>
    ELSE ret.kind = "raise" /\ ret.exc = "APIKeyError"

\* C17: when the response has status 401, make_api_request raises
\* APIRequestError "API authentication failed: ..." whatever the body is:
\* with the body's error.message when the body is JSON with an error
\* object that has one, and with the generic text otherwise
C17_AuthFailureForEveryBody ==
  (/\ call.fn = "make_api_request"
   /\ ret.kind # "none"
   /\ ret.got.kind = "response"
   /\ ret.got.status = 401) =>
    /\ ret.kind = "raise"
    /\ ret.exc = "APIRequestError"
    /\ ret.msg = <<"API authentication failed",
                   IF ret.got.body = "{error: {message: 'm'}}" THEN "m"
                   ELSE "Invalid API key">>

\* C18: a failing make_api_request raises APIRequestError of the class of
\* the failure: timed out with the timeout in seconds for a timeout, HTTP
\* error with the status for a status outside 200..299 other than 401,
\* request failed for another transport failure; a failure of the request
\* or of reading the response raises nothing else
C18_FailureClasses ==
  (call.fn = "make_api_request" /\ ret.kind # "none" /\ ret.requested) =>
    /\ ret.kind = "raise" => ret.exc = "APIRequestError"
    /\ ret.got.kind = "timeout" =>
         ret.kind = "raise"
           /\ ret.msg = <<"Request timed out after", call.timeout>>
    /\ ret.got.kind = "connection" =>
         ret.kind = "raise" /\ ret.msg = <<"Request failed">>
    /\ (ret.got.kind = "response" /\ ret.got.status \notin 200..299
          /\ ret.got.status # 401) =>
         ret.kind = "raise" /\ ret.msg = <<"HTTP error", ret.got.status>>

\* C19: search_skills and ai_search behave as calls of make_api_request
\* with the default timeout: what they pass to requests.get (the key of
\* the shared loader when api_key is None, a timeout of 10 seconds) and
\* what they return or raise (APIRequestError for a 401 and for a
\* timeout) is what the gateway passes and returns on the same inputs
C19_SearchThroughGateway ==
  (call.fn \in {"search_skills", "ai_search"} /\ ret.kind # "none") =>
    ret \in make_api_request(call.api_key, call.env, call.dev, call.tmpl,
                             DefaultTimeout, ret.got)

\* C20: both listings of the registry, list_installed_skills and
\* get_installed_skills_with_metadata, report a directory exactly when it
\* holds a SKILL.md whose manifest gives a non-empty name
C20_ListedIffNamed ==
  \A d \in DirNames :
    LET named == HasManifest(fs, d) /\ FrontmatterName(fs, d) # "" IN
    /\ d \in list_installed_skills(fs) <=> named
    /\ d \in get_installed_skills_with_metadata(fs) <=> named

IsLookup == call.fn \in {"search_skill_on_skillsmp", "get_skill_details_from_skillsmp"}

\* C21: for every answer of the search, the remote match is the first
\* record whose name equals the requested name ignoring case; when there
\* is none, the first record; when the list is empty or success is false,
\* nothing
C21_RemoteMatch ==
  (IsLookup /\ ret.kind # "none" /\ call.answer.kind = "value") =>
    LET l == call.answer.skills
        same(i) == Lower(GetName(l[i])) = Lower(call.name) IN
    /\ ret.kind = "value"
    /\ ret.found <=> (call.answer.success /\ l # <<>>)
    /\ ret.found =>
         \E i \in 1..Len(l) :
           /\ ret.record = l[i]
           /\ IF \E j \in 1..Len(l) : same(j)
              THEN same(i) /\ \A j \in 1..(i - 1) : ~same(j)
              ELSE i = 1

\* 'Foo' was asked for and the second record, named 'foo', was returned
\* although the first record is another package
C21_Witness ==
  /\ IsLookup
  /\ call.name = "Foo"
  /\ call.answer.kind = "value" /\ call.answer.success
  /\ Len(call.answer.skills) = 2
  /\ call.answer.skills[1].name = "bar"
  /\ call.answer.skills[2].name = "foo"
  /\ ret.kind = "value" /\ ret.found /\ ret.record = call.answer.skills[2]

\* the orders in which the items of a dict can be stored
Orders(d) ==
  {p \in [DOMAIN d -> {d[i] : i \in DOMAIN d}] :
     {p[i] : i \in DOMAIN p} = {d[i] : i \in DOMAIN d}}
\* the value of a key in a dict, from its items alone
ValueOf(d, key, default) ==
  LET items == {d[i] : i \in DOMAIN d}
  IN IF \E it \in items : it[1] = key
     THEN (CHOOSE it \in items : it[1] = key)[2]
     ELSE default
IsCompare == call.fn = "compare_versions" /\ ret.kind # "none"

\* C22: for every local manifest and remote record, the field list of
\* compare_versions holds exactly one 'stars' entry, carrying the remote
\* star count, and a 'name', 'author' or 'description' entry if and only
\* if the local and the remote value of that field are both non-empty and
\* unequal; the result is the same in whatever order the keys of either
\* input are stored.
C22_CompareFields ==
  IsCompare =>
    /\ ret.kind = "value"
    /\ Cardinality({i \in DOMAIN ret.fields : ret.fields[i].field = "stars"}) = 1
    /\ \A i \in DOMAIN ret.fields :
         ret.fields[i].field = "stars"
           => ret.fields[i].stars = ValueOf(call.remote, "stars", 0)
    /\ \A key \in {"name", "author", "description"} :
         (\E i \in DOMAIN ret.fields : ret.fields[i].field = key)
           <=> /\ ValueOf(call.local, key, "") # ""
               /\ ValueOf(call.remote, key, "") # ""
               /\ ValueOf(call.local, key, "") # ValueOf(call.remote, key, "")
    /\ \A l \in Orders(call.local), r \in Orders(call.remote) :
         compare_versions(l, r) = ret
\* a comparison of a manifest and a record that differ in one field, agree
\* in another and lack a third on one side
C22_Witness ==
  /\ IsCompare
  /\ Len(ret.fields) = 2
  /\ ValueOf(call.remote, "stars", 0) = 5
  /\ ValueOf(call.local, "author", "") # ""
  /\ ValueOf(call.remote, "author", "") = ""
  /\ Len(call.remote) = 4

\* C23: a gateway failure (credential, timeout, authentication, HTTP,
\* transport) during the comparator's remote lookup reaches the caller as
\* that typed failure and is not reported as 'no remote match'
C23_GatewayFailureSurfaces ==
  (call.fn = "get_skill_details_from_skillsmp" /\ ret.kind # "none"
     /\ call.answer.kind = "raise"
     /\ call.answer.exc \in {"APIKeyError", "APIRequestError"}) =>
    /\ ret.kind = "raise"
    /\ ret.exc = call.answer.exc

IsScan == call.fn = "check_skill_updates" /\ ret.kind # "none"

\* C24: in check_skill_updates a failure while checking one installed
\* package (a gateway error, a remote record with a missing or non-numeric
\* updatedAt) never stops the scan: every installed package is looked up
\* and the function returns a result
C24_ScanGoesOn ==
  (IsScan /\ \A i \in DOMAIN call.answers :
               call.answers[i].kind = "raise"
                 => call.answers[i].exc = "APIRequestError") =>
    /\ ret.kind = "value"
    /\ ret.checked = Len(call.installed)

IsProxies == call.fn = "load_proxies" /\ ret.kind # "none"
\* the variable is set to a non-empty value
NonEmpty(v) == v # NotSet /\ v # ""

\* C25: load_proxies returns no proxy configuration exactly when none of
\* HTTP_PROXY, http_proxy, HTTPS_PROXY, https_proxy is set to a non-empty
\* value; otherwise the mapping has an 'http' entry iff an HTTP variable is
\* set and an 'https' entry iff an HTTPS variable is set, each the value of
\* the upper-case variable when that is set and of the lower-case one
\* otherwise
C25_Proxies ==
  IsProxies =>
    LET e == call.env IN
    /\ ret.kind = "value"
    /\ ret.none <=> \A v \in {e.HTTP_PROXY, e.http_proxy, e.HTTPS_PROXY, e.https_proxy} :
                      ~NonEmpty(v)
    /\ ret.http # NoEntry <=> (NonEmpty(e.HTTP_PROXY) \/ NonEmpty(e.http_proxy))
    /\ ret.https # NoEntry <=> (NonEmpty(e.HTTPS_PROXY) \/ NonEmpty(e.https_proxy))
    /\ ret.http # NoEntry =>
         ret.http = IF NonEmpty(e.HTTP_PROXY) THEN e.HTTP_PROXY ELSE e.http_proxy
    /\ ret.https # NoEntry =>
         ret.https = IF NonEmpty(e.HTTPS_PROXY) THEN e.HTTPS_PROXY ELSE e.https_proxy
\* both HTTP variables are set to different values, HTTPS_PROXY is empty
\* and https_proxy is not set: one entry, with the upper-case value
C25_Witness ==
  /\ IsProxies
  /\ call.env.HTTP_PROXY = "http://a" /\ call.env.http_proxy = "http://b"
  /\ call.env.HTTPS_PROXY = "" /\ call.env.https_proxy = NotSet
  /\ ~ret.none /\ ret.http = "http://a" /\ ret.https = NoEntry

IsAddress == call.fn = "download_address" /\ ret.kind # "none"
\* pieces i..j of t are a non-empty text without a slash
Segment(t, i, j) == i <= j /\ \A k \in i..j : t[k] # "/"
\* t holds 'github.com/<owner>/<repo>' at i, the owner ending at j and the
\* repository, running to the next slash or the end, at k
HoldsRepo(t, i, j, k) ==
  /\ t[i] = "github.com" /\ i + 1 <= Len(t) /\ t[i + 1] = "/"
  /\ Segment(t, i + 2, j)
  /\ j + 1 <= Len(t) /\ t[j + 1] = "/"
  /\ Segment(t, j + 2, k)
  /\ k = Len(t) \/ t[k + 1] = "/"
HoldsRepoAt(t, i) == \E j, k \in 1..Len(t) : HoldsRepo(t, i, j, k)

\* C26: the download address is the explicit direct URL whenever one is
\* given; otherwise, for a repository URL that contains
\* 'github.com/<owner>/<repo>', it is exactly
\* 'https://github.com/<owner>/<repo>/releases/latest/download/<skill_name>.skill',
\* for the first place where the URL contains it; otherwise no address is
\* resolved
C26_DownloadAddress ==
  IsAddress =>
    LET d == call.download_url
        t == call.github_url.text
    IN
    IF ~d.none /\ d.text # <<>>
    THEN ret.resolved /\ ret.url = d.text
    ELSE IF \E i \in 1..Len(t) : HoldsRepoAt(t, i)
    THEN \E i, j, k \in 1..Len(t) :
           /\ HoldsRepo(t, i, j, k)
           /\ \A h \in 1..(i - 1) : ~HoldsRepoAt(t, h)
           /\ ret.resolved
           /\ ret.url = <<"https:", "/", "/", "github.com", "/">>
                          \o SubSeq(t, i + 2, j) \o <<"/">> \o SubSeq(t, j + 2, k)
                          \o <<"/", "releases", "/", "latest", "/", "download", "/",
                               call.name, ".skill">>
    ELSE ~ret.resolved
\* no direct URL, and a repository URL whose repository is followed by a
\* path: the address names owner 'a', repository 'b' and 'Foo.skill'
C26_Witness ==
  /\ IsAddress
  /\ call.download_url.none
  /\ call.github_url.text = <<"github.com", "/", "a", "/", "b", "/">>
  /\ call.name = "Foo"
  /\ ret.resolved
  /\ ret.url = <<"https:", "/", "/", "github.com", "/", "a", "/", "b",
                 "/", "releases", "/", "latest", "/", "download", "/",
                 "Foo", ".skill">>

\* the answer for an installed package holds a remote match
HasMatch(a) == a.kind = "value" /\ a.success /\ a.skills # <<>>
\* the remote update timestamp of the match, 0 when the record has none
RemoteTime(a) ==
  IF a.skills[1].updatedAt.t = "int" THEN a.skills[1].updatedAt.v ELSE 0
InUpdates(s) == \E i \in DOMAIN ret.updates : ret.updates[i].name = s.name
InList(l, s) == \E i \in DOMAIN l : l[i] = s

\* C27: when check_skill_updates returns, an installed package with a
\* remote match is under 'updates' if and only if the remote update
\* timestamp is greater than the local modification time plus one second,
\* and under 'up_to_date' otherwise
C27_UpdateRule ==
  (IsScan /\ ret.kind = "value") =>
    \A i \in DOMAIN call.installed :
      HasMatch(call.answers[i]) =>
        LET s == call.installed[i]
            newer == RemoteTime(call.answers[i]) > s.local_modified + 1
        IN /\ InUpdates(s) <=> newer
           /\ InList(ret.up_to_date, s) <=> ~newer
\* two packages modified at 1: the one updated remotely at 3 is under
\* 'updates', the one updated at 2 is under 'up_to_date'
C27_Witness ==
  /\ IsScan /\ ret.kind = "value"
  /\ Len(call.installed) = 2
  /\ call.installed[1].local_modified = 1 /\ call.installed[2].local_modified = 1
  /\ HasMatch(call.answers[1]) /\ call.answers[1].skills[1].updatedAt = [t |-> "int", v |-> 3]
  /\ HasMatch(call.answers[2]) /\ call.answers[2].skills[1].updatedAt = [t |-> "int", v |-> 2]
  /\ InUpdates(call.installed[1]) /\ ~InUpdates(call.installed[2])
  /\ InList(ret.up_to_date, call.installed[2])

\* the name a front matter yields, if any
YieldsName(fm, n) == "name" \in DOMAIN fm /\ fm["name"] = n

\* C28: the two manifest-name readers agree on every manifest:
\* get_skill_name_from_md returns name n if and only if
\* extract_frontmatter yields name n
C28_ReadersAgree ==
  \A n \in {"foo", "bar", "x"} \cup ManifestLines :
    /\ (call.fn = "get_skill_name_from_md" /\ ret.kind # "none") =>
         (ret.name = n <=> YieldsName(extract_frontmatter(call.lines), n))
    /\ (call.fn = "extract_frontmatter" /\ ret.kind # "none") =>
         (YieldsName(ret.frontmatter, n)
            <=> get_skill_name_from_md_text(call.lines) = n)

\* no two packages of the scan carry the same manifest name
UniqueNames(f) ==
  \A d, e \in get_installed_skills_with_metadata(f) :
    d # e => get_skill_name_from_md(f, d) # get_skill_name_from_md(f, e)
\* the registry holds no directory named '<dir>.backup'
NoBackupDirs(f) == \A d \in DirNames : d[2] > 0 => ~Exists(f, d)

\* C29: starting from a registry in which manifest names are unique (and
\* that holds no backup directory), after an install_skill_update
\* invocation, succeeding or failing at any step, the registry scan
\* reports no two installed packages with the same manifest name, and
\* RESOLVE_TARGET has not selected a '<dir>.backup' directory
C29_NamesStayUnique ==
  (UniqueNames(fs0) /\ NoBackupDirs(fs0) /\ pc # "idle") =>
    /\ skill_dir # NoDir => skill_dir[2] = 0
    /\ result # "none" => UniqueNames(fs)

\* in how many of the four lists the package appears
ListsHolding(s) ==
  Cardinality({k \in {"updates", "up_to_date", "not_found", "errors"} :
                 IF k = "updates" THEN InUpdates(s)
                 ELSE IF k = "up_to_date" THEN InList(ret.up_to_date, s)
                 ELSE IF k = "not_found" THEN InList(ret.not_found, s)
                 ELSE InList(ret.errors, s)})

\* C30: when check_skill_updates returns, every installed package is in
\* exactly one of 'updates', 'up_to_date', 'not_found', 'errors', the four
\* lengths sum to the number of installed packages, and a package whose
\* remote lookup failed with an API error is under 'errors' and not under
\* 'not_found'
C30_OneListEach ==
  (IsScan /\ ret.kind = "value") =>
    /\ Len(ret.updates) + Len(ret.up_to_date) + Len(ret.not_found)
         + Len(ret.errors) = Len(call.installed)
    /\ \A i \in DOMAIN call.installed :
         /\ ListsHolding(call.installed[i]) = 1
         /\ (call.answers[i].kind = "raise"
               /\ call.answers[i].exc = "APIRequestError")
              => /\ InList(ret.errors, call.installed[i])
                 /\ ~InList(ret.not_found, call.installed[i])

============================================================================
